---- MODULE Spec2Model ----
(***************************************************************************)
(* Model of the CoRoutines library (src/src/CoRoutines.h, CoRoutines.cpp): *)
(* class CoRoutine (suspended, waitRelativeToWorkerExit, nextRun; resume,  *)
(* awake, suspend) and class Scheduler (coRoutines, arraySize, noEntries;  *)
(* resize, addCoRoutine, removeCoRoutine, runOnce).                        *)
(*                                                                         *)
(* The array of pointers is modelled as the bytes it occupies, because     *)
(* removeCoRoutine passes an entry count to memcpy where a byte count is   *)
(* expected: a pointer is PtrSize bytes, and a shift may copy a part of    *)
(* one.  The clock is millis(); it advances between calls (Tick) and while *)
(* a worker runs.                                                          *)
(***************************************************************************)
EXTENDS Integers, Sequences, FiniteSets, TLC

VARIABLES
    clock,       \* the value millis() returns
    co,          \* co[t]: the fields of co-routine object t
    coRoutines,  \* Scheduler::coRoutines, the bytes of the allocated array
    arraySize,   \* Scheduler::arraySize, in entries
    noEntries,   \* Scheduler::noEntries
    fault,       \* a call was made through a pointer that is no CoRoutine
    app,         \* the application: what its workers return, how far the
                 \* model follows it (clock, number of entries) and whether
                 \* it keeps hist
    hist,        \* history of each co-routine's runs (observation only)
    last         \* the last call made and what it did (observation only)

vars == <<clock, co, coRoutines, arraySize, noEntries, fault, app, hist, last>>

-----------------------------------------------------------------------------
(* Bounds of the model. *)

MaxClock == 3       \* SpecCo: the clock runs from 0 to MaxClock
MaxEntries == 3     \* SpecReg: addCoRoutine is called up to MaxEntries entries
SweepClock == 1     \* Spec: the clock runs from 0 to SweepClock
SweepEntries == 2   \* Spec: addCoRoutine is called up to SweepEntries entries
LoopEntries == 4    \* SpecLive: addCoRoutine is called up to LoopEntries entries

(* The co-routine objects of the application. *)
Tasks == {"t1", "t2", "t3"}

(* Values a worker returns: -1 (suspend), 0 (as soon as possible), 2 ms. *)
WaitTimes == {-1, 0, 2}

(* The milliseconds a worker takes. *)
WorkTimes == {0, 1}

(* Times are unsigned long (32 bits).  The clock and every delay of the
   model are far below 2^32, so no sum of the model wraps around and the
   sums are written without the reduction modulo 2^32. *)

-----------------------------------------------------------------------------
(* class CoRoutine *)

(* CoRoutine::CoRoutine *)
NewCoRoutine(waitRelativeToWorkerExit) ==
    [suspended |-> FALSE,
     waitRelativeToWorkerExit |-> waitRelativeToWorkerExit,
     nextRun |-> 0]

(* Variants of TimeToRun with a slip: the suspension is not looked at; the
   comparison is strict; the clock has to be at least one past nextRun. *)
TimeToRunIgnoringSuspended(c, startOfRun) == startOfRun >= c.nextRun

TimeToRunStrict(c, startOfRun) == ~c.suspended /\ startOfRun > c.nextRun

TimeToRunOnePast(c, startOfRun) ==
    ~c.suspended /\ (c.nextRun = 0 \/ startOfRun >= c.nextRun + 1)

(* The test of resume(): is it time to run? *)
TimeToRun(c, startOfRun) == ~c.suspended /\ startOfRun >= c.nextRun

(* A variant of AfterWorker with a slip: the next run of a co-routine that
   waits relative to the exit of its worker is set from startOfRun. *)
AfterWorkerFromStart(c, startOfRun, endOfRun, waitTime) ==
    IF waitTime = -1
    THEN [c EXCEPT !.suspended = TRUE]
    ELSE IF c.waitRelativeToWorkerExit
         THEN [c EXCEPT !.nextRun = startOfRun + waitTime]
         ELSE IF c.nextRun # 0
              THEN [c EXCEPT !.nextRun = c.nextRun + waitTime]
              ELSE [c EXCEPT !.nextRun = startOfRun + waitTime]

(* resume() after worker() returned waitTime; endOfRun is what millis()
   returns after the worker. *)
AfterWorker(c, startOfRun, endOfRun, waitTime) ==
    IF waitTime = -1
    THEN [c EXCEPT !.suspended = TRUE]
    ELSE IF c.waitRelativeToWorkerExit
         THEN [c EXCEPT !.nextRun = endOfRun + waitTime]
         ELSE IF c.nextRun # 0
              THEN [c EXCEPT !.nextRun = c.nextRun + waitTime]
              ELSE [c EXCEPT !.nextRun = startOfRun + waitTime]

(* In the record of a call: the worker was not invoked. *)
NoRet == 0 - 2

(* One call of resume() on object c when millis() = now: the set of its
   possible outcomes, one per value in rets the worker returns and time it
   takes (the clock stops at `upto').  An outcome records the call: the
   sample startOfRun, the object before and after, how many times worker()
   was invoked, what it returned and the clock when it returned. *)
Resume(c, now, rets, upto) ==
    IF TimeToRun(c, now)
    THEN { [startOfRun |-> now, pre |-> c, workerCalls |-> 1, ret |-> w,
            endOfRun |-> now + d, post |-> AfterWorker(c, now, now + d, w)] :
             w \in rets, d \in {x \in WorkTimes : now + x <= upto} }
    ELSE { [startOfRun |-> now, pre |-> c, workerCalls |-> 0, ret |-> NoRet,
            endOfRun |-> now, post |-> c] }

(* CoRoutine::isSuspended *)
IsSuspended(c) == c.suspended

(* A variant of AwakeCo with a slip: nextRun is reset also when the object
   is not suspended. *)
AwakeCoAlways(c) == [c EXCEPT !.nextRun = 0, !.suspended = FALSE]

(* A variant of AwakeCo with a slip: nextRun is left as it was. *)
AwakeCoKeepingNextRun(c) ==
    IF c.suspended THEN [c EXCEPT !.suspended = FALSE] ELSE c

(* CoRoutine::awake *)
AwakeCo(c) ==
    IF c.suspended
    THEN [c EXCEPT !.nextRun = 0, !.suspended = FALSE]
    ELSE c

(* CoRoutine::suspend *)
SuspendCo(c) == [c EXCEPT !.suspended = TRUE]

-----------------------------------------------------------------------------
(* History of a co-routine's runs, kept beside the object (in SpecCo, where
   the schedules are examined) to state what the schedule should be.
   started: worker() has been invoked since the object was constructed or
   last awakened.  awoken: awake() has taken the object out of suspension
   and neither resume() nor suspend() was called on it since.  uniform: the
   object has run, and every run since the first returned the same delay d
   (d >= 0); expected is then the first scheduled time plus d for each run
   after the first.  lastRet: what the last invocation of worker() returned
   (NoRet: not invoked since the object was constructed or last awakened). *)
NewHist ==
    [started |-> FALSE, awoken |-> FALSE, uniform |-> FALSE, d |-> NoRet,
     expected |-> 0, lastRet |-> NoRet]

HistAfterResume(h, call) ==
    IF call.workerCalls = 0
    THEN [h EXCEPT !.awoken = FALSE]
    ELSE IF call.ret = -1 \/ call.pre.waitRelativeToWorkerExit
         THEN [NewHist EXCEPT !.started = TRUE, !.lastRet = call.ret]
         ELSE IF ~h.started
              THEN [NewHist EXCEPT !.started = TRUE, !.uniform = TRUE,
                                   !.d = call.ret,
                                   !.expected = call.post.nextRun,
                                   !.lastRet = call.ret]
              ELSE IF h.uniform /\ call.ret = h.d
                   THEN [h EXCEPT !.expected = @ + call.ret,
                                  !.lastRet = call.ret]
                   ELSE [NewHist EXCEPT !.started = TRUE, !.lastRet = call.ret]

HistAfterAwake(h, c) ==
    IF c.suspended THEN [NewHist EXCEPT !.awoken = TRUE] ELSE h

HistAfterSuspend(h) == [h EXCEPT !.awoken = FALSE]

-----------------------------------------------------------------------------
(* Pointers and the memory of the array. *)

(* The size of a pointer to CoRoutine: 2 bytes on the AVR boards the library
   is written for. *)
PtrSize == 2

(* The addresses of the co-routine objects, low byte first: 0x01F8, 0x0200
   and 0x0208 (objects of 8 bytes laid out one after the other). *)
Addr(t) ==
    CASE t = "t1" -> <<248, 1>>
      [] t = "t2" -> <<0, 2>>
      [] t = "t3" -> <<8, 2>>

IsCoRoutine(p) == \E t \in Tasks : Addr(t) = p

TaskAt(p) == CHOOSE t \in Tasks : Addr(t) = p

(* What malloc leaves in fresh memory: every byte 0 or every byte 255. *)
FreshBytes == {0, 255}

(* coRoutines[i] *)
EntryAt(a, i) == SubSeq(a, i * PtrSize + 1, (i + 1) * PtrSize)

(* coRoutines[i] = p *)
StoreAt(a, i, p) ==
    [b \in 1..Len(a) |->
        IF i * PtrSize < b /\ b <= (i + 1) * PtrSize
        THEN p[b - i * PtrSize]
        ELSE a[b]]

(* The entries coRoutines[0 .. n-1], as pointers. *)
Entries(a, n) == [i \in 1..n |-> EntryAt(a, i - 1)]

(* memcpy within one array, copying n bytes from byte offset src to byte
   offset dst, lowest byte first (CopyUp) or highest byte first (CopyDown). *)
RECURSIVE CopyUp(_, _, _, _, _)
CopyUp(a, dst, src, j, n) ==
    IF j = n THEN a
    ELSE CopyUp([a EXCEPT ![dst + j + 1] = a[src + j + 1]], dst, src, j + 1, n)

RECURSIVE CopyDown(_, _, _, _)
CopyDown(a, dst, src, j) ==
    IF j = 0 THEN a
    ELSE CopyDown([a EXCEPT ![dst + j] = a[src + j]], dst, src, j - 1)

(* memcpy: when the two regions overlap the result is not defined by the
   language; the library copies in one direction or the other. *)
Memcpy(a, dst, src, n) ==
    IF dst + n > src /\ src + n > dst /\ n > 0
    THEN {CopyUp(a, dst, src, 0, n), CopyDown(a, dst, src, n)}
    ELSE {CopyUp(a, dst, src, 0, n)}

-----------------------------------------------------------------------------
(* class Scheduler.  A registry value is [coRoutines, arraySize, noEntries]. *)

(* Scheduler::Scheduler *)
NewScheduler == [coRoutines |-> <<>>, arraySize |-> 0, noEntries |-> 0]

(* An access to the array: coRoutines[index] is read or written while
   `limit' entries may be accessed (arraySize for the write of addCoRoutine,
   noEntries for the reads). *)
Access(index, limit) == [index |-> index, limit |-> limit]

(* A variant of Resize with a slip: the array grows only when the size
   asked for exceeds arraySize by more than one. *)
ResizeLate(r, wanted) ==
    IF wanted > r.arraySize + 1
    THEN LET newSize == IF r.arraySize = 0 THEN 1 ELSE 2 * r.arraySize
         IN  { [r EXCEPT !.coRoutines =
                            [b \in 1..(newSize * PtrSize) |->
                                IF b <= r.arraySize * PtrSize
                                THEN r.coRoutines[b] ELSE f],
                         !.arraySize = newSize] : f \in FreshBytes }
    ELSE {r}

(* A variant of Resize with a slip: the array grows to the size asked for
   and no further. *)
ResizeToWanted(r, wanted) ==
    IF wanted > r.arraySize
    THEN { [r EXCEPT !.coRoutines =
                        [b \in 1..(wanted * PtrSize) |->
                            IF b <= r.arraySize * PtrSize
                            THEN r.coRoutines[b] ELSE f],
                     !.arraySize = wanted] : f \in FreshBytes }
    ELSE {r}

(* Scheduler::resize: the possible registries afterwards. *)
Resize(r, wanted) ==
    IF wanted > r.arraySize
    THEN LET newSize == IF r.arraySize = 0 THEN 1 ELSE 2 * r.arraySize
         IN  { [r EXCEPT !.coRoutines =
                            [b \in 1..(newSize * PtrSize) |->
                                IF b <= r.arraySize * PtrSize
                                THEN r.coRoutines[b] ELSE f],
                         !.arraySize = newSize] : f \in FreshBytes }
    ELSE {r}

(* Scheduler::addCoRoutine *)
AddCoRoutine(r, p) ==
    LET n == r.noEntries + 1
    IN  { [r2 EXCEPT !.coRoutines = StoreAt(@, n - 1, p)] :
            r2 \in Resize([r EXCEPT !.noEntries = n], n) }

(* The access of addCoRoutine that took registry r to r2: the write of
   coRoutines[noEntries-1] into the array as resize() left it. *)
AddAccess(r, r2) == {Access(r2.noEntries - 1, r2.arraySize)}

(* The search loop of removeCoRoutine: for (i = noEntries-1; i != 0; --i). *)
RECURSIVE FindFrom(_, _, _, _)
FindFrom(a, i, p, notFound) ==
    IF i = 0 THEN notFound
    ELSE IF EntryAt(a, i) = p THEN i
         ELSE FindFrom(a, i - 1, p, notFound)

(* A variant of FoundIndex with a slip: foundIndex starts at the last
   index, so that an entry that is not found counts as found there. *)
FoundIndexFromLast(r, p) ==
    FindFrom(r.coRoutines, r.noEntries - 1, p, r.noEntries - 1)

(* A variant of FoundIndex with a slip: the search goes down to index 0. *)
FoundIndexDownToZero(r, p) ==
    IF EntryAt(r.coRoutines, 0) = p
    THEN FindFrom(r.coRoutines, r.noEntries - 1, p, 0)
    ELSE FindFrom(r.coRoutines, r.noEntries - 1, p, r.noEntries)

(* The index removeCoRoutine finds for p; noEntries when it finds none. *)
FoundIndex(r, p) == FindFrom(r.coRoutines, r.noEntries - 1, p, r.noEntries)

(* The reads of the search loop from index i down, while the scheduler
   holds n entries: it reads coRoutines[i] until it finds p. *)
RECURSIVE ScanAccess(_, _, _, _)
ScanAccess(a, i, p, n) ==
    IF i = 0 THEN {}
    ELSE IF EntryAt(a, i) = p THEN {Access(i, n)}
         ELSE {Access(i, n)} \cup ScanAccess(a, i - 1, p, n)

(* The reads of the memcpy in the removal at foundIndex: the entries in
   which the entriesToMove bytes from &coRoutines[foundIndex+1] on lie. *)
ShiftAccess(r, foundIndex) ==
    LET entriesToMove == r.noEntries - (foundIndex + 1)
    IN  { Access(((foundIndex + 1) * PtrSize + b) \div PtrSize, r.noEntries) :
            b \in 0..(entriesToMove - 1) }

(* The accesses of removeCoRoutine(p) on registry r. *)
RemoveAccess(r, p) ==
    IF r.noEntries = 0
    THEN {}
    ELSE ScanAccess(r.coRoutines, r.noEntries - 1, p, r.noEntries)
           \cup (IF FoundIndex(r, p) # r.noEntries
                 THEN ShiftAccess(r, FoundIndex(r, p)) ELSE {})

(* The removal at foundIndex: memcpy of entriesToMove bytes, --noEntries. *)
RemoveAt(r, foundIndex) ==
    LET entriesToMove == r.noEntries - (foundIndex + 1)
    IN  { [r EXCEPT !.coRoutines = a, !.noEntries = @ - 1] :
            a \in Memcpy(r.coRoutines, foundIndex * PtrSize,
                         (foundIndex + 1) * PtrSize, entriesToMove) }

(* Scheduler::removeCoRoutine: the possible registries afterwards. *)
RemoveCoRoutine(r, p) ==
    IF r.noEntries = 0
    THEN {r}
    ELSE LET foundIndex == FoundIndex(r, p)
         IN  IF foundIndex # r.noEntries
             THEN RemoveAt(r, foundIndex)
             ELSE {r}

(* A call through an entry that is not the address of a CoRoutine, as the
   record of a call: the object fields it shows are a placeholder. *)
WildCall(p, now) ==
    [p |-> p, task |-> "wild", startOfRun |-> now, pre |-> NewCoRoutine(FALSE),
     workerCalls |-> 0, ret |-> NoRet, endOfRun |-> now,
     post |-> NewCoRoutine(FALSE), awoken |-> FALSE, lastRet |-> NoRet]

(* The record of coRoutine->resume() through entry p with outcome c, on an
   object whose history before the call is h. *)
CallOf(p, c, h) ==
    [p |-> p, task |-> TaskAt(p), startOfRun |-> c.startOfRun, pre |-> c.pre,
     workerCalls |-> c.workerCalls, ret |-> c.ret, endOfRun |-> c.endOfRun,
     post |-> c.post, awoken |-> h.awoken, lastRet |-> h.lastRet]

(* A variant of AfterCall with a slip: the sweep keeps the clock value it
   started with, whatever time the worker took. *)
AfterCallClockHeld(s, p, c) ==
    LET t == TaskAt(p)
    IN  [s EXCEPT !.co = [@ EXCEPT ![t] = c.post],
                  !.calls = Append(@, CallOf(p, c, s.hist[t]))]

(* The state a sweep threads through its calls:
   [clock, co, hist, fault, halted, calls, app, access]. *)
AfterCall(s, p, c) ==
    LET t == TaskAt(p)
    IN  [s EXCEPT !.clock = c.endOfRun,
                  !.co = [@ EXCEPT ![t] = c.post],
                  !.hist = IF s.app.history
                           THEN [@ EXCEPT ![t] = HistAfterResume(@, c)]
                           ELSE @,
                  !.calls = Append(@, CallOf(p, c, s.hist[t]))]

(* The first loop of runOnce, from index i on.  resume() through an entry
   that is no CoRoutine reads and may write and call what is not an object:
   either the call comes back and the loop goes on, or the program does not
   get further (halted). *)
RECURSIVE ResumeAll(_, _, _)
ResumeAll(r, i, s) ==
    IF i = r.noEntries
    THEN {s}
    ELSE LET p == EntryAt(r.coRoutines, i)
             s0 == [s EXCEPT !.access = @ \cup {Access(i, r.noEntries)}]
         IN  IF IsCoRoutine(p)
             THEN UNION { ResumeAll(r, i + 1, AfterCall(s0, p, c)) :
                            c \in Resume(s.co[TaskAt(p)], s.clock,
                                        s.app.worker[TaskAt(p)], s.app.horizon) }
             ELSE LET w == [s0 EXCEPT !.fault = TRUE,
                                      !.calls = Append(@, WildCall(p, s.clock))]
                  IN  {[w EXCEPT !.halted = TRUE]} \cup ResumeAll(r, i + 1, w)

(* coRoutines[i]->isSuspended() in the second loop of runOnce: through an
   entry that is no CoRoutine it reads a byte that is not the field. *)
SuspendedAt(p, cos) ==
    IF IsCoRoutine(p) THEN {IsSuspended(cos[TaskAt(p)])} ELSE BOOLEAN

(* The second loop of runOnce, from index i down: for (i = noEntries-1;
   i != 0; --i).  pr is [r, fault, access]. *)
RECURSIVE RemoveSuspended(_, _, _)
RemoveSuspended(pr, i, cos) ==
    IF i = 0
    THEN {pr}
    ELSE LET p == EntryAt(pr.r.coRoutines, i)
             q == [pr EXCEPT !.fault = @ \/ ~IsCoRoutine(p),
                             !.access = @ \cup {Access(i, pr.r.noEntries)}]
         IN  UNION { IF b
                     THEN UNION { RemoveSuspended(
                                    [q EXCEPT !.r = r2,
                                              !.access = @ \cup RemoveAccess(q.r, p)],
                                    i - 1, cos) :
                                    r2 \in RemoveCoRoutine(q.r, p) }
                     ELSE RemoveSuspended(q, i - 1, cos) :
                     b \in SuspendedAt(p, cos) }

(* A variant of RunOnce with a slip: the second loop runs whatever
   removeCompletedCoRoutines is. *)
RunOnceAlwaysRemoving(r, s, removeCompletedCoRoutines) ==
    UNION { IF ~s1.halted /\ r.noEntries # 0
            THEN { [r |-> pr.r, s |-> [s1 EXCEPT !.fault = pr.fault,
                                                 !.access = pr.access]] :
                     pr \in RemoveSuspended([r |-> r, fault |-> s1.fault,
                                             access |-> s1.access],
                                            r.noEntries - 1, s1.co) }
            ELSE { [r |-> r, s |-> s1] } :
            s1 \in ResumeAll(r, 0, s) }

(* Scheduler::runOnce: the possible [r, s] afterwards. *)
RunOnce(r, s, removeCompletedCoRoutines) ==
    UNION { IF ~s1.halted /\ r.noEntries # 0 /\ removeCompletedCoRoutines
            THEN { [r |-> pr.r, s |-> [s1 EXCEPT !.fault = pr.fault,
                                                 !.access = pr.access]] :
                     pr \in RemoveSuspended([r |-> r, fault |-> s1.fault,
                                             access |-> s1.access],
                                            r.noEntries - 1, s1.co) }
            ELSE { [r |-> r, s |-> s1] } :
            s1 \in ResumeAll(r, 0, s) }

-----------------------------------------------------------------------------
(* The state machine: the application constructs its co-routines and a
   scheduler, then calls their methods in any order while time passes. *)

Registry == [coRoutines |-> coRoutines, arraySize |-> arraySize,
             noEntries |-> noEntries]

SweepState == [clock |-> clock, co |-> co, hist |-> hist, fault |-> fault,
               halted |-> FALSE, calls |-> <<>>, app |-> app, access |-> {}]

(* `last' is NoCall after Tick and suspend(), and after addCoRoutine() but
   for the access made.  What `last' keeps of a call on a co-routine object: its name, the object
   and the calls of resume() made. *)
CoCall(op, t, calls) ==
    [op |-> op, task |-> t, prune |-> FALSE, calls |-> calls,
     pre |-> co[t], entries |-> <<>>, arraySize |-> 0, access |-> {}]

(* What `last' keeps of a call on the scheduler: its name and arguments,
   the calls of resume() made, the entries and the array size before, and
   the accesses to the array. *)
SchedulerAccess(call, access) == [call EXCEPT !.access = access]

SchedulerCall(op, t, prune, calls) ==
    [op |-> op, task |-> t, prune |-> prune, calls |-> calls,
     pre |-> NewCoRoutine(FALSE), entries |-> Entries(coRoutines, noEntries),
     arraySize |-> arraySize, access |-> {}]

NoCall ==
    [op |-> "none", task |-> "none", prune |-> FALSE, calls |-> <<>>,
     pre |-> NewCoRoutine(FALSE), entries |-> <<>>, arraySize |-> 0,
     access |-> {}]

(* The policy each co-routine is constructed with: t2 waits relative to
   the exit of its worker. *)
Policy(t) == t = "t2"

(* The workers of SpecCo: those of t1 and t2 return any of WaitTimes, that
   of t3 suspends it in its first run. *)
CoWorkers ==
    [t \in Tasks |-> IF t = "t3" THEN {-1} ELSE WaitTimes]

(* The workers of Spec, SpecReg and SpecLive: t1 is periodic, t2 runs as often as
   possible until it suspends itself, t3 suspends itself in its first run. *)
SweepWorkers ==
    [t \in Tasks |-> CASE t = "t1" -> {1} [] t = "t2" -> {-1, 0} [] t = "t3" -> {-1}]

InitWith(w, h, n, k) ==
    /\ clock = 0
    /\ co = [t \in Tasks |-> NewCoRoutine(Policy(t))]
    /\ coRoutines = NewScheduler.coRoutines
    /\ arraySize = NewScheduler.arraySize
    /\ noEntries = NewScheduler.noEntries
    /\ fault = FALSE
    /\ app = [worker |-> w, horizon |-> h, maxEntries |-> n, history |-> k]
    /\ hist = [t \in Tasks |-> NewHist]
    /\ last = NoCall

(* Spec: the scheduler with up to SweepEntries entries while time passes. *)
Init == InitWith(SweepWorkers, SweepClock, SweepEntries, FALSE)

(* SpecReg: the scheduler with up to MaxEntries entries; the clock stands
   still (what the array holds does not depend on the time). *)
InitReg == InitWith(SweepWorkers, 0, MaxEntries, FALSE)

(* SpecCo: the co-routines alone. *)
InitCo == InitWith(CoWorkers, MaxClock, 0, TRUE)

(* A millisecond passes. *)
Tick ==
    /\ ~fault
    /\ clock < app.horizon
    /\ clock' = clock + 1
    /\ last' = NoCall
    /\ UNCHANGED <<co, coRoutines, arraySize, noEntries, fault, app, hist>>

(* The application calls t.resume(). *)
DoResume(t) ==
    /\ ~fault
    /\ \E c \in Resume(co[t], clock, app.worker[t], app.horizon) :
        /\ clock' = c.endOfRun
        /\ co' = [co EXCEPT ![t] = c.post]
        /\ hist' = IF app.history
                   THEN [hist EXCEPT ![t] = HistAfterResume(@, c)]
                   ELSE hist
        /\ last' = CoCall("resume", t, <<CallOf(Addr(t), c, hist[t])>>)
    /\ UNCHANGED <<coRoutines, arraySize, noEntries, fault, app>>

(* The application calls t.awake(). *)
DoAwake(t) ==
    /\ ~fault
    /\ co' = [co EXCEPT ![t] = AwakeCo(@)]
    /\ hist' = IF app.history
               THEN [hist EXCEPT ![t] = HistAfterAwake(@, co[t])]
               ELSE hist
    /\ last' = CoCall("awake", t, <<>>)
    /\ UNCHANGED <<clock, coRoutines, arraySize, noEntries, fault, app>>

(* The application calls t.suspend(). *)
DoSuspend(t) ==
    /\ ~fault
    /\ co' = [co EXCEPT ![t] = SuspendCo(@)]
    /\ hist' = IF app.history
               THEN [hist EXCEPT ![t] = HistAfterSuspend(@)]
               ELSE hist
    /\ last' = NoCall
    /\ UNCHANGED <<clock, coRoutines, arraySize, noEntries, fault, app>>

(* The application calls scheduler.addCoRoutine(t). *)
DoAdd(t) ==
    /\ ~fault
    /\ noEntries < app.maxEntries
    /\ \E r \in AddCoRoutine(Registry, Addr(t)) :
        /\ coRoutines' = r.coRoutines
        /\ arraySize' = r.arraySize
        /\ noEntries' = r.noEntries
        /\ last' = SchedulerAccess(NoCall, AddAccess(Registry, r))
    /\ UNCHANGED <<clock, co, fault, app, hist>>

(* The application calls scheduler.removeCoRoutine(t). *)
DoRemove(t) ==
    /\ ~fault
    /\ \E r \in RemoveCoRoutine(Registry, Addr(t)) :
        /\ coRoutines' = r.coRoutines
        /\ arraySize' = r.arraySize
        /\ noEntries' = r.noEntries
    /\ last' = SchedulerAccess(SchedulerCall("remove", t, FALSE, <<>>),
                               RemoveAccess(Registry, Addr(t)))
    /\ UNCHANGED <<clock, co, fault, app, hist>>

(* The application calls scheduler.runOnce(prune). *)
DoRunOnce(prune) ==
    /\ ~fault
    /\ \E o \in RunOnce(Registry, SweepState, prune) :
        /\ clock' = o.s.clock
        /\ co' = o.s.co
        /\ hist' = o.s.hist
        /\ fault' = o.s.fault
        /\ coRoutines' = o.r.coRoutines
        /\ arraySize' = o.r.arraySize
        /\ noEntries' = o.r.noEntries
        /\ last' = SchedulerAccess(
                      SchedulerCall("runOnce", "none", prune, o.s.calls),
                      o.s.access)
    /\ UNCHANGED app

Next ==
    \/ Tick
    \/ \E t \in Tasks : DoResume(t)
    \/ \E t \in Tasks : DoAwake(t)
    \/ \E t \in Tasks : DoSuspend(t)
    \/ \E t \in Tasks : DoAdd(t)
    \/ \E t \in Tasks : DoRemove(t)
    \/ \E prune \in BOOLEAN : DoRunOnce(prune)

(* The scheduler and the co-routines it holds, while time passes. *)
Spec == Init /\ [][Next]_vars

(* The scheduler with more entries and the clock at 0. *)
NextReg ==
    \/ \E t \in Tasks : DoAwake(t)
    \/ \E t \in Tasks : DoSuspend(t)
    \/ \E t \in Tasks : DoAdd(t)
    \/ \E t \in Tasks : DoRemove(t)
    \/ \E prune \in BOOLEAN : DoRunOnce(prune)

SpecReg == InitReg /\ [][NextReg]_vars

(* The co-routines alone, resumed by the application itself. *)
NextCo ==
    \/ Tick
    \/ \E t \in Tasks : DoResume(t)
    \/ \E t \in Tasks : DoAwake(t)
    \/ \E t \in Tasks : DoSuspend(t)

SpecCo == InitCo /\ [][NextCo]_vars

(* SpecLive: an application that adds co-routines (up to LoopEntries
   entries) and whose main loop calls runOnce again and again, as long as the
   program runs.  It never calls removeCoRoutine or suspend() itself: a
   co-routine leaves the scheduler only by suspending itself and being
   removed by runOnce(true).  The clock stands at 0: a co-routine that has
   not run, or whose worker returns 0, is due at every clock value. *)
InitLive == InitWith(SweepWorkers, 0, LoopEntries, FALSE)

NextLive ==
    \/ \E t \in Tasks : DoAdd(t)
    \/ \E prune \in BOOLEAN : DoRunOnce(prune)

SpecLive ==
    /\ InitLive
    /\ [][NextLive]_vars
    /\ WF_vars(\E prune \in BOOLEAN : DoRunOnce(prune))

-----------------------------------------------------------------------------
(* What the claims speak of. *)

(* The entries of the scheduler, coRoutines[0 .. noEntries-1]. *)
LiveEntries == Entries(coRoutines, noEntries)

(* Entry p is the address of a co-routine that is (is not) suspended. *)
Dormant(p) == IsCoRoutine(p) /\ co[TaskAt(p)].suspended

NotDormant(p) == IsCoRoutine(p) /\ ~co[TaskAt(p)].suspended

(* The highest index at which p occurs in seq (0: nowhere). *)
LastIndexOf(seq, p) ==
    IF \E i \in 1..Len(seq) : seq[i] = p
    THEN CHOOSE i \in 1..Len(seq) :
            /\ seq[i] = p
            /\ \A j \in (i + 1)..Len(seq) : seq[j] # p
    ELSE 0

(* seq without its element at index i. *)
Without(seq, i) == SubSeq(seq, 1, i - 1) \o SubSeq(seq, i + 1, Len(seq))

(* The entries through which a sweep called resume(), in the order of the
   calls. *)
CalledEntries == [i \in 1..Len(last.calls) |-> last.calls[i].p]

(* C1: after runOnce(true) no entry of the scheduler is a suspended
   co-routine, at whatever index it sat. *)
C1_PruneRemovesDormant ==
    (last.op = "runOnce" /\ last.prune) =>
        \A i \in 1..noEntries : ~Dormant(LiveEntries[i])

(* C2: runOnce(true) keeps the entries whose co-routine is not suspended at
   the end of the first loop: afterwards they are the same, as often and in
   the same order as before. *)
C2_PruneKeepsOthers ==
    (last.op = "runOnce" /\ last.prune) =>
        SelectSeq(LiveEntries, NotDormant) = SelectSeq(last.entries, NotDormant)

(* C3: removeCoRoutine(t) on a scheduler that holds t leaves the entries as
   they were with the last occurrence of t deleted. *)
C3_RemoveDeletesLast ==
    (last.op = "remove" /\ LastIndexOf(last.entries, Addr(last.task)) # 0) =>
        LiveEntries = Without(last.entries,
                              LastIndexOf(last.entries, Addr(last.task)))

(* C4: runOnce calls resume() once through every entry present at its
   start, in the order of the indices. *)
C4_SweepResumesEachOnce ==
    last.op = "runOnce" => CalledEntries = last.entries

(* C5: a co-routine that waits relative to its schedule and has run with
   the same delay d in every run has nextRun at the first scheduled time
   plus d for each run after the first. *)
C5_ScheduleAdvancesByDelay ==
    \A t \in Tasks :
        (hist[t].uniform /\ ~co[t].waitRelativeToWorkerExit) =>
            co[t].nextRun = hist[t].expected

(* C6: when resume() runs the worker of a co-routine that waits relative to
   the exit of its worker and the worker returns ms >= 0, nextRun is the
   clock read after the worker plus ms. *)
C6_NextRunFromCompletion ==
    \A i \in 1..Len(last.calls) :
        LET c == last.calls[i]
        IN  (c.pre.waitRelativeToWorkerExit /\ c.workerCalls = 1 /\ c.ret >= 0) =>
                /\ c.post.nextRun = c.endOfRun + c.ret
                /\ last.op = "resume" => co[last.task].nextRun = clock + c.ret

C6_Witness ==
    /\ last.op = "resume"
    /\ \E i \in 1..Len(last.calls) :
        /\ last.calls[i].pre.waitRelativeToWorkerExit
        /\ last.calls[i].workerCalls = 1
        /\ last.calls[i].ret = 2
        /\ last.calls[i].endOfRun > last.calls[i].startOfRun
        /\ co[last.task].nextRun = last.calls[i].endOfRun + 2

(* C7: no call of resume(), by the application or in a sweep, runs the
   worker of a suspended co-routine or changes the object, at any clock
   value; and a suspended object stays as it is in every step but an
   awake() on it. *)
C7_DormantNotRun ==
    /\ [](\A i \in 1..Len(last.calls) :
            last.calls[i].pre.suspended =>
                /\ last.calls[i].workerCalls = 0
                /\ last.calls[i].post = last.calls[i].pre)
    /\ [][\A t \in Tasks :
            (co[t].suspended /\ ~(last'.op = "awake" /\ last'.task = t)) =>
                co'[t] = co[t]]_vars

C7_Witness ==
    /\ last.op = "runOnce"
    /\ \E i \in 1..Len(last.calls) :
        /\ last.calls[i].pre.suspended
        /\ last.calls[i].startOfRun > 0
        /\ last.calls[i].startOfRun >= last.calls[i].pre.nextRun
        /\ last.calls[i].workerCalls = 0
        /\ co[last.calls[i].task] = last.calls[i].pre

(* C8: the first resume() after an awake() that took the co-routine out of
   suspension runs the worker, whatever the clock, and schedules as a first
   run: from the sample of that call (from the clock after the worker when
   the co-routine waits relative to the exit of its worker). *)
C8_AwakeRunsNext ==
    \A i \in 1..Len(last.calls) :
        LET c == last.calls[i]
        IN  c.awoken =>
                /\ c.workerCalls = 1
                /\ c.ret >= 0 =>
                     c.post.nextRun =
                        (IF c.pre.waitRelativeToWorkerExit
                         THEN c.endOfRun ELSE c.startOfRun) + c.ret

C8_Witness ==
    /\ last.op = "resume"
    /\ \E i \in 1..Len(last.calls) :
        /\ last.calls[i].awoken
        /\ ~last.calls[i].pre.waitRelativeToWorkerExit
        /\ last.calls[i].startOfRun > 0
        /\ last.calls[i].workerCalls = 1
        /\ last.calls[i].ret = 2
        /\ co[last.task].nextRun = last.calls[i].startOfRun + 2

(* C9: resume() invokes the worker once when the co-routine is not
   suspended and the sampled clock is not before nextRun, and otherwise not
   at all, leaving the object as it was. *)
C9_ResumeRunsIffDue ==
    \A i \in 1..Len(last.calls) :
        LET c == last.calls[i]
        IN  /\ c.workerCalls =
                 (IF ~c.pre.suspended /\ c.startOfRun >= c.pre.nextRun
                  THEN 1 ELSE 0)
            /\ c.workerCalls = 0 => c.post = c.pre
            /\ last.op = "resume" => co[last.task] = c.post

C9_Witness ==
    /\ last.op = "resume"
    /\ \E i \in 1..Len(last.calls) :
        /\ ~last.calls[i].pre.suspended
        /\ last.calls[i].pre.nextRun > 0
        /\ last.calls[i].startOfRun = last.calls[i].pre.nextRun
        /\ last.calls[i].workerCalls = 1

(* C10: removeCoRoutine(t) on a scheduler that does not hold t (an empty
   one too) changes nothing: not the array, its size or the number of
   entries, and no co-routine. *)
C10_RemoveMissingIsNoOp ==
    [][(last'.op = "remove" /\ LastIndexOf(LiveEntries, Addr(last'.task)) = 0) =>
          UNCHANGED <<coRoutines, arraySize, noEntries, co>>]_vars

C10_Witness ==
    /\ last.op = "remove"
    /\ LastIndexOf(last.entries, Addr(last.task)) = 0
    /\ noEntries >= 2
    /\ LiveEntries = last.entries

(* C11: when the last run of the worker returned 0 and the co-routine is
   not suspended, the next call of resume() invokes the worker again,
   whatever time has passed in between and under either policy; until then
   the co-routine is due at every clock value. *)
C11_ZeroDelayRunsNext ==
    /\ \A i \in 1..Len(last.calls) :
         (last.calls[i].lastRet = 0 /\ ~last.calls[i].pre.suspended) =>
             last.calls[i].workerCalls = 1
    /\ \A t \in Tasks :
         (hist[t].lastRet = 0 /\ ~co[t].suspended) => TimeToRun(co[t], clock)

C11_Witness ==
    /\ last.op = "resume"
    /\ \E i \in 1..Len(last.calls) :
        /\ last.calls[i].lastRet = 0
        /\ ~last.calls[i].pre.suspended
        /\ ~last.calls[i].pre.waitRelativeToWorkerExit
        /\ last.calls[i].pre.nextRun > 0
        /\ last.calls[i].startOfRun > last.calls[i].pre.nextRun
        /\ last.calls[i].workerCalls = 1

(* C12: awake() on a co-routine that is not suspended leaves the object as
   it was (suspended stays false, nextRun keeps its value), so a co-routine
   that was not due is not due after the call. *)
C12_AwakeOfRunningIsNoOp ==
    (last.op = "awake" /\ ~last.pre.suspended) =>
        /\ co[last.task] = last.pre
        /\ ~co[last.task].suspended
        /\ ~TimeToRun(last.pre, clock) => ~TimeToRun(co[last.task], clock)

C12_Witness ==
    /\ last.op = "awake"
    /\ ~last.pre.suspended
    /\ last.pre.nextRun > clock
    /\ co[last.task].nextRun = last.pre.nextRun
    /\ clock > 0

(* C13 as stated: every call of resume() made by one runOnce tests against
   the same clock sample. *)
C13_OneSamplePerSweep ==
    last.op = "runOnce" =>
        \A i, j \in 1..Len(last.calls) :
            last.calls[i].startOfRun = last.calls[j].startOfRun

(* C13, amended: runOnce reads no clock; each resume() it calls samples
   millis() itself.  The first call samples the clock at the start of the
   sweep, each later call the clock as the call before it left it (after
   the worker of that call, if it ran), and each call on a co-routine tests
   the co-routine against its own sample. *)
C13_SamplePerResume ==
    /\ [](last.op = "runOnce" =>
            \A i \in 1..Len(last.calls) :
                LET c == last.calls[i]
                IN  /\ IsCoRoutine(c.p) =>
                          c.workerCalls = (IF TimeToRun(c.pre, c.startOfRun)
                                           THEN 1 ELSE 0)
                    /\ i < Len(last.calls) =>
                          last.calls[i + 1].startOfRun = c.endOfRun
                    /\ i = Len(last.calls) => clock = c.endOfRun)
    /\ [][(last'.op = "runOnce" /\ Len(last'.calls) > 0) =>
             last'.calls[1].startOfRun = clock]_vars

(* A co-routine that was not due at the first sample of the sweep runs in
   the same sweep, because the worker of an earlier entry took time. *)
C13_Witness ==
    /\ last.op = "runOnce"
    /\ Len(last.calls) = 2
    /\ last.calls[1].workerCalls = 1
    /\ last.calls[1].endOfRun > last.calls[1].startOfRun
    /\ last.calls[2].pre.nextRun > last.calls[1].startOfRun
    /\ last.calls[2].startOfRun = last.calls[1].endOfRun
    /\ last.calls[2].workerCalls = 1

(* C14: runOnce(false) leaves the scheduler as it was: the same entries,
   the same number of them and the same array size, also when co-routines
   it holds are suspended or suspend themselves in the sweep. *)
C14_SweepWithoutPruneKeepsRegistry ==
    (last.op = "runOnce" /\ ~last.prune) =>
        /\ LiveEntries = last.entries
        /\ noEntries = Len(last.entries)
        /\ arraySize = last.arraySize

(* A sweep without pruning in which the co-routine of the last of three
   entries suspended itself, and the entry is still there. *)
C14_Witness ==
    /\ last.op = "runOnce"
    /\ ~last.prune
    /\ noEntries = 3
    /\ LiveEntries = last.entries
    /\ Len(last.calls) = 3
    /\ last.calls[3].ret = -1
    /\ Dormant(LiveEntries[3])

(* C15: in every state noEntries <= arraySize, and arraySize is 0 or a
   power of two; no step makes arraySize smaller, and a step that changes
   it takes it from 0 to 1 or doubles it; the array has room for arraySize
   pointers. *)
C15_ArrayOnlyGrows ==
    /\ [](/\ noEntries <= arraySize
          /\ arraySize = 0 \/ \E k \in 0..app.maxEntries : arraySize = 2 ^ k
          /\ Len(coRoutines) = arraySize * PtrSize)
    /\ [][/\ arraySize' >= arraySize
          /\ arraySize' # arraySize =>
                arraySize' = (IF arraySize = 0 THEN 1 ELSE 2 * arraySize)]_vars

(* The array has grown to 4 places for a third entry, and a removal has
   left 2 entries in it. *)
C15_Witness ==
    /\ arraySize = 4
    /\ noEntries = 2
    /\ last.op = "remove"
    /\ Len(last.entries) = 3

(* C16: a co-routine that is not suspended has nextRun = 0 exactly when its
   worker has not been invoked since the object was constructed or last
   awakened. *)
C16_UnsetIffNeverRun ==
    \A t \in Tasks :
        ~co[t].suspended => (co[t].nextRun = 0 <=> ~hist[t].started)

(* C17: once the scheduler holds an entry, no step changes the entry at
   index 0 or brings noEntries back to 0. *)
C17_FirstEntryStays ==
    [][noEntries > 0 =>
          /\ noEntries' > 0
          /\ EntryAt(coRoutines', 0) = EntryAt(coRoutines, 0)]_vars

(* removeCoRoutine of the co-routine that is at index 0 and at index 1 has
   removed the entry at index 1; the one at index 0 is still there. *)
C17_Witness ==
    /\ last.op = "remove"
    /\ Len(last.entries) = 2
    /\ last.entries[1] = Addr(last.task)
    /\ last.entries[2] = Addr(last.task)
    /\ noEntries = 1
    /\ LiveEntries[1] = Addr(last.task)

(* How often p occurs in seq. *)
Occurrences(seq, p) == Cardinality({i \in 1..Len(seq) : seq[i] = p})

(* C18: every entry below noEntries is the address of a co-routine that
   was added, and removeCoRoutine and runOnce leave no co-routine in the
   scheduler more often than it was in it before the call. *)
C18_EntriesAreAddedCoRoutines ==
    /\ \A i \in 1..noEntries : IsCoRoutine(LiveEntries[i])
    /\ last.op \in {"remove", "runOnce"} =>
         \A t \in Tasks :
            Occurrences(LiveEntries, Addr(t)) <= Occurrences(last.entries, Addr(t))

(* C19: every access to the array made by addCoRoutine, removeCoRoutine
   and runOnce is in bounds: the write of addCoRoutine is at an index below
   arraySize, and every read (the loops of runOnce, the search and the shift
   of removeCoRoutine, also those called from the second loop of runOnce
   after it has removed entries) is at an index below noEntries as it is at
   the time (for the shift: as it is before the removal). *)
C19_AccessesInBounds ==
    \A x \in last.access : 0 <= x.index /\ x.index < x.limit

(* A runOnce(true) whose second loop removed two entries and read the last
   of the entries left after the first removal. *)
C19_Witness ==
    /\ last.op = "runOnce"
    /\ last.prune
    /\ Len(last.entries) = 3
    /\ noEntries = 1
    /\ Access(2, 3) \in last.access
    /\ Access(1, 2) \in last.access

(* Co-routine t is in the scheduler. *)
Registered(t) == \E i \in 1..noEntries : LiveEntries[i] = Addr(t)

(* The last sweep invoked the worker of t. *)
RanInSweep(t) ==
    /\ last.op = "runOnce"
    /\ \E i \in 1..Len(last.calls) :
        last.calls[i].task = t /\ last.calls[i].workerCalls = 1

(* C20: in an application that calls runOnce again and again and never
   removes or suspends a co-routine itself, a co-routine that has got into
   the scheduler and does not suspend itself is not starved: from then on,
   whenever it is due, a later sweep invokes its worker (or it has suspended
   itself), whatever its policy and whatever the other entries are.  Runs
   in which a call is made through an entry that is no CoRoutine are left
   aside (fault): what the program does from there on is undefined. *)
C20_DueRunsEventually ==
    \A t \in Tasks :
        [](Registered(t) =>
             [](TimeToRun(co[t], clock) =>
                  <>(RanInSweep(t) \/ co[t].suspended \/ fault)))

====
